---- MODULE Spec2Model ----
(***************************************************************************)
(* gitnotekv: a key-value store kept in Git notes.                         *)
(*                                                                         *)
(* A Repo object is a session on one Git repository; indexing it with a    *)
(* reference name gives a RepoRef, a dictionary-like handle on the JSON    *)
(* document stored in the note of that reference.  Nothing is written to   *)
(* the repository until Repo.__exit__ runs.                                *)
(*                                                                         *)
(* Python values are written as strings holding their repr: "1" is the     *)
(* int 1, "None" is None, "set()" is an empty set (which json.dumps        *)
(* rejects), "'a'" would be the str a.  Dictionaries keep insertion order, *)
(* as Python's do, and are sequences of <<key, value>> pairs.  A note is   *)
(* the sequence of JSON tokens of its text; the empty sequence means that  *)
(* the reference has no note.                                              *)
(***************************************************************************)
EXTENDS Naturals, Sequences, FiniteSets, TLC

\* Bounds of the model.
MaxMut == 2       \* successful __setitem__ / __delitem__ / clear calls
MaxEnter == 2     \* successful __enter__ calls

\* The Repo objects of the application, all on the same repository path.
Sessions == {"s1", "s2"}

\* Canonical identifiers (commit hashes) of the repository.
Canon == {"c1", "c2"}

\* Reference names the application asks for: a branch, two hashes, and a
\* name that does not exist.
Names == {"main", "c1", "c2", "nope"}

\* Keys the application passes: two strings, an int and a list.
StrKeys == {"a", "b"}
NonStrKeys == {"7", "[]"}
Keys == StrKeys \cup NonStrKeys

\* Values JSON can hold, and the values the application passes to
\* __setitem__: an int and a set.
JsonValues == {"1", "None"}
Values == {"1", "set()"}

\* Defaults the application passes to get().
Defaults == {"None", "0"}

\* Exception state of the with-block when __exit__ is called.
ExcTypes == {"None", "KeyError"}

VARIABLES
  repo_exists,   \* whether the repository path holds a Git repository
  notes,         \* the notes of the repository: canonical id -> note text
  remote_push,   \* Repo.remote_push of each session
  has_refs,      \* whether Repo.active_refs has been assigned
  active_refs,   \* Repo.active_refs: ordered dict, cache key -> RepoRef;
                 \* a RepoRef is its fields ref and note_kv, and the key it
                 \* is cached under in its session names the object
  scope,         \* "in" inside the with-block of the session, else "out"
  app,           \* the application: the Repo objects it has constructed,
                 \* the names it looks up and the keys it uses
  asked,         \* history: the names whose lookup constructed a handle of
                 \* the session's current cache
  refused,       \* history: the canonical ids whose lookup raised
                 \* MalformedNoteDataError since the session's last __enter__
  result,        \* outcome of the call being made, Idle between calls
  nmut,          \* successful mutations so far
  nenter         \* successful __enter__ calls so far

vars == <<repo_exists, notes, remote_push, has_refs, active_refs, scope,
          app, asked, refused, result, nmut, nenter>>

(***************************************************************************)
(* Insertion-ordered dictionaries.                                         *)
(***************************************************************************)
DictHas(d, k) == \E i \in 1..Len(d) : d[i][1] = k

DictGet(d, k) == d[CHOOSE i \in 1..Len(d) : d[i][1] = k][2]

DictSet(d, k, v) ==
  IF DictHas(d, k)
  THEN [i \in 1..Len(d) |-> IF d[i][1] = k THEN <<k, v>> ELSE d[i]]
  ELSE Append(d, <<k, v>>)

DictDel(d, k) ==
  LET keep(p) == p[1] # k IN SelectSeq(d, keep)

DictValues(d) == [i \in 1..Len(d) |-> d[i][2]]

\* Dictionary equality in Python ignores the order of insertion.
DictItems(d) == {d[i] : i \in 1..Len(d)}

(***************************************************************************)
(* The json module, on the values of the model.                            *)
(***************************************************************************)
\* The JSON text of a string key.
StrTok(k) ==
  CASE k = "a" -> "\"a\""
    [] k = "b" -> "\"b\""

\* The JSON text of a serializable value.
ValTok(v) ==
  CASE v = "1" -> "1"
    [] v = "None" -> "null"

IsStrTok(t) == \E k \in StrKeys : StrTok(k) = t
IsValTok(t) == \E v \in JsonValues : ValTok(v) = t
KeyOfTok(t) == CHOOSE k \in StrKeys : StrTok(k) = t
ValOfTok(t) == CHOOSE v \in JsonValues : ValTok(v) = t

RECURSIVE DumpMembers(_)
DumpMembers(d) ==
  IF d = <<>> THEN <<>>
  ELSE <<StrTok(Head(d)[1]), ":", ValTok(Head(d)[2])>>
       \o (IF Tail(d) = <<>> THEN <<>> ELSE <<",">> \o DumpMembers(Tail(d)))

\* json.dumps of a dictionary with string keys.
JsonDumps(d) ==
  IF \E i \in 1..Len(d) : d[i][2] \notin JsonValues
  THEN [err |-> "TypeError", text |-> <<>>]
  ELSE [err |-> "", text |-> <<"{">> \o DumpMembers(d) \o <<"}">>]

\* The members of a JSON object, between its braces; a repeated key keeps
\* its first position and takes the last value, as in a Python dict.
RECURSIVE ParseMembers(_, _)
ParseMembers(toks, acc) ==
  IF Len(toks) < 3 \/ ~IsStrTok(toks[1]) \/ toks[2] # ":" \/ ~IsValTok(toks[3])
  THEN [ok |-> FALSE, d |-> <<>>]
  ELSE LET d == DictSet(acc, KeyOfTok(toks[1]), ValOfTok(toks[3])) IN
       IF Len(toks) = 3 THEN [ok |-> TRUE, d |-> d]
       ELSE IF toks[4] # "," THEN [ok |-> FALSE, d |-> <<>>]
       ELSE ParseMembers(SubSeq(toks, 5, Len(toks)), d)

\* The elements of a JSON array, between its brackets.
RECURSIVE ParseElements(_)
ParseElements(toks) ==
  IF Len(toks) < 1 \/ ~IsValTok(toks[1]) THEN FALSE
  ELSE IF Len(toks) = 1 THEN TRUE
  ELSE IF toks[2] # "," THEN FALSE
  ELSE ParseElements(SubSeq(toks, 3, Len(toks)))

\* json.loads: the type of the parsed value, and the value when a dict.
JsonLoads(text) ==
  LET n == Len(text)
      inner == SubSeq(text, 2, n - 1)
      bad == [err |-> "JSONDecodeError", type |-> "", d |-> <<>>]
  IN  IF n = 0 THEN bad
      ELSE IF n = 1
        THEN IF IsValTok(text[1]) \/ IsStrTok(text[1])
             THEN [err |-> "", type |-> "scalar", d |-> <<>>]
             ELSE bad
      ELSE IF text[1] = "{" /\ text[n] = "}"
        THEN IF n = 2 THEN [err |-> "", type |-> "dict", d |-> <<>>]
             ELSE LET p == ParseMembers(inner, <<>>) IN
                  IF p.ok THEN [err |-> "", type |-> "dict", d |-> p.d]
                  ELSE bad
      ELSE IF text[1] = "[" /\ text[n] = "]"
        THEN IF n = 2 \/ ParseElements(inner)
             THEN [err |-> "", type |-> "list", d |-> <<>>]
             ELSE bad
      ELSE bad

(***************************************************************************)
(* The git command, as the library calls it.                               *)
(***************************************************************************)
NoRef == "-"

\* git rev-parse <key>: the canonical id, or NoRef when git exits with 128.
RevParse(key) ==
  CASE key = "main" -> "c1"
    [] key = "c1" -> "c1"
    [] key = "c2" -> "c2"
    [] OTHER -> NoRef

\* git notes add -f -m <text> <ref>
NotesAdd(store, ref, text) == [store EXCEPT ![ref] = text]

\* git notes remove --ignore-missing <ref>
NotesRemove(store, ref) == [store EXCEPT ![ref] = <<>>]

\* git notes remove <ref> without --ignore-missing exits with 1 when the
\* object has no note.
NotesRemoveStrict(store, ref) ==
  IF store[ref] = <<>> THEN "ErrorReturnCode_1" ELSE ""

\* The exception sh raises from git notes remove --ignore-missing <ref>:
\* none, whether or not the object has a note.
NotesRemoveError(store, ref) == ""

\* Notes found in the repository when the application starts.
GarbageNote == <<"hello">>
ArrayNote == <<"[", "1", "]">>
ObjectNote == <<"{", "\"a\"", ":", "null", "}">>
ScalarNote == <<"1">>
BrokenNote == <<"{", "\"a\"", ":", "1">>
MalformedNotes == {GarbageNote, ArrayNote, ScalarNote, BrokenNote}
InitNotes == {<<>>, ObjectNote} \cup MalformedNotes

(***************************************************************************)
(* Outcome of a call: the call (op, session s, handle h, argument arg),    *)
(* the exception raised (err, "" when none), the value returned (ret) and  *)
(* the git notes commands the call ran (calls).                            *)
(***************************************************************************)
Res(op, s, h, arg, err, ret, calls) ==
  [op |-> op, s |-> s, h |-> h, arg |-> arg, err |-> err, ret |-> ret,
   calls |-> calls]

Idle == Res("idle", "-", "", "", "", "", <<>>)

\* The library is synchronous and single-threaded: the application makes
\* one call at a time.
Ready == result = Idle

InitWith(application, found) ==
  /\ app = application
  /\ asked = [s \in Sessions |-> {}]
  /\ refused = [s \in Sessions |-> {}]
  /\ repo_exists \in BOOLEAN
  /\ notes \in [Canon -> found]
  /\ remote_push = [s \in Sessions |-> s = "s1"]
  /\ has_refs = [s \in Sessions |-> FALSE]
  /\ active_refs = [s \in Sessions |-> <<>>]
  /\ scope = [s \in Sessions |-> "out"]
  /\ result = Idle
  /\ nmut = 0
  /\ nenter = 0

\* Repo.__enter__ leaving the cache of an earlier with-block in place.
EnterKeepsCache(s) ==
  /\ Ready
  /\ scope[s] = "out"
  /\ IF repo_exists
     THEN /\ nenter < MaxEnter
          /\ nenter' = nenter + 1
          /\ has_refs' = [has_refs EXCEPT ![s] = TRUE]
          /\ scope' = [scope EXCEPT ![s] = "in"]
          /\ result' = Res("enter", s, "", "", "", "", <<>>)
          /\ UNCHANGED <<active_refs, asked, refused>>
     ELSE /\ result' = Res("enter", s, "", "", "RepoDoesNotExistError", "", <<>>)
          /\ UNCHANGED <<nenter, active_refs, has_refs, scope, asked, refused>>
  /\ UNCHANGED <<app, repo_exists, notes, remote_push, nmut>>

\* Repo.__enter__
Enter(s) ==
  /\ Ready
  /\ scope[s] = "out"
  /\ IF repo_exists
     THEN /\ nenter < MaxEnter
          /\ nenter' = nenter + 1
          /\ active_refs' = [active_refs EXCEPT ![s] = <<>>]
          /\ has_refs' = [has_refs EXCEPT ![s] = TRUE]
          /\ scope' = [scope EXCEPT ![s] = "in"]
          /\ asked' = [asked EXCEPT ![s] = {}]
          /\ refused' = [refused EXCEPT ![s] = {}]
          /\ result' = Res("enter", s, "", "", "", "", <<>>)
     ELSE /\ result' = Res("enter", s, "", "", "RepoDoesNotExistError", "", <<>>)
          /\ UNCHANGED <<nenter, active_refs, has_refs, scope, asked, refused>>
  /\ UNCHANGED <<app, repo_exists, notes, remote_push, nmut>>

\* The commit loop of Repo.__exit__ over the cached handles, in the order
\* of the dictionary; json.dumps or git raising ends the loop.
RECURSIVE Flush(_, _, _)
Flush(repo_refs, store, calls) ==
  IF repo_refs = <<>> THEN [notes |-> store, calls |-> calls, err |-> ""]
  ELSE LET repo_ref == Head(repo_refs)
           dumped == JsonDumps(repo_ref.note_kv)
       IN  IF repo_ref.note_kv # <<>>
           THEN IF dumped.err # ""
                THEN [notes |-> store, calls |-> calls, err |-> dumped.err]
                ELSE Flush(Tail(repo_refs),
                           NotesAdd(store, repo_ref.ref, dumped.text),
                           Append(calls, [cmd |-> "notes add", ref |-> repo_ref.ref]))
           ELSE IF NotesRemoveError(store, repo_ref.ref) # ""
                THEN [notes |-> store,
                      calls |-> Append(calls, [cmd |-> "notes remove", ref |-> repo_ref.ref]),
                      err |-> NotesRemoveError(store, repo_ref.ref)]
                ELSE Flush(Tail(repo_refs),
                           NotesRemove(store, repo_ref.ref),
                           Append(calls, [cmd |-> "notes remove", ref |-> repo_ref.ref]))

\* Repo.__exit__(exc_type, exc_val, exc_tb): at the end of the with-block,
\* or called again by hand.  The exception arguments are not read.
Exit(s, exc) ==
  /\ Ready
  /\ IF has_refs[s]
     THEN LET f == Flush(DictValues(active_refs[s]), notes, <<>>) IN
          /\ notes' = f.notes
          /\ result' = Res("exit", s, "", exc, f.err, "", f.calls)
     ELSE /\ notes' = notes
          /\ result' = Res("exit", s, "", exc, "AttributeError", "", <<>>)
  /\ scope' = [scope EXCEPT ![s] = "out"]
  /\ UNCHANGED <<app, asked, refused, repo_exists, remote_push, has_refs, active_refs, nmut, nenter>>

\* RepoRef.__init__ without the isinstance check on the parsed value.
LoadNoteUnchecked(text) ==
  LET parsed == JsonLoads(text) IN
  IF text = <<>> THEN [err |-> "", note_kv |-> <<>>]
  ELSE IF parsed.err # "" THEN [err |-> "MalformedNoteDataError", note_kv |-> <<>>]
  ELSE [err |-> "", note_kv |-> parsed.d]

\* RepoRef.__init__ taking a note that is no JSON object for no note.
LoadNoteLenient(text) ==
  LET parsed == JsonLoads(text) IN
  IF text = <<>> THEN [err |-> "", note_kv |-> <<>>]
  ELSE IF parsed.err # "" THEN [err |-> "", note_kv |-> <<>>]
  ELSE IF parsed.type # "dict" THEN [err |-> "", note_kv |-> <<>>]
  ELSE [err |-> "", note_kv |-> parsed.d]

\* RepoRef.__init__: the document loaded from the note of ref.
LoadNote(text) ==
  LET parsed == JsonLoads(text) IN
  IF text = <<>> THEN [err |-> "", note_kv |-> <<>>]
  ELSE IF parsed.err # "" THEN [err |-> "MalformedNoteDataError", note_kv |-> <<>>]
  ELSE IF parsed.type # "dict" THEN [err |-> "MalformedNoteDataError", note_kv |-> <<>>]
  ELSE [err |-> "", note_kv |-> parsed.d]

\* The cache keyed by the name asked for instead of the canonical id.
CacheKeyByName(key, ref) == key

\* The key of Repo.active_refs under which a handle is cached.
CacheKey(key, ref) == ref

\* Repo.__getitem__ dropping the cache when git rev-parse fails.
ResolveDropsCache(s, key) ==
  LET ref == RevParse(key)
      k == CacheKey(key, ref)
      load == LoadNote(notes[ref])
      show == <<[cmd |-> "notes show", ref |-> ref]>>
  IN
  /\ Ready
  /\ IF ~repo_exists \/ ref = NoRef
     THEN /\ result' = Res("resolve", s, "", key, "GitReferenceDoesNotExistError", "", <<>>)
          /\ active_refs' = [active_refs EXCEPT ![s] = <<>>]
          /\ UNCHANGED <<asked, refused>>
     ELSE IF ~has_refs[s]
     THEN /\ result' = Res("resolve", s, "", key, "AttributeError", "", <<>>)
          /\ UNCHANGED <<active_refs, asked, refused>>
     ELSE IF DictHas(active_refs[s], k)
     THEN /\ result' = Res("resolve", s, k, key, "", "", <<>>)
          /\ UNCHANGED <<active_refs, asked, refused>>
     ELSE IF load.err # ""
     THEN /\ result' = Res("resolve", s, "", key, load.err, "", show)
          /\ refused' = [refused EXCEPT ![s] = @ \cup {ref}]
          /\ UNCHANGED <<active_refs, asked>>
     ELSE /\ active_refs' = [active_refs EXCEPT ![s] =
                 DictSet(@, k, [ref |-> ref, note_kv |-> load.note_kv])]
          /\ asked' = [asked EXCEPT ![s] = @ \cup {key}]
          /\ result' = Res("resolve", s, k, key, "", "", show)
          /\ UNCHANGED refused
  /\ UNCHANGED <<app, repo_exists, notes, remote_push, has_refs, scope, nmut, nenter>>

\* Repo.__getitem__(key)
Resolve(s, key) ==
  LET ref == RevParse(key)
      k == CacheKey(key, ref)
      load == LoadNote(notes[ref])
      show == <<[cmd |-> "notes show", ref |-> ref]>>
  IN
  /\ Ready
  /\ IF ~repo_exists \/ ref = NoRef
     THEN /\ result' = Res("resolve", s, "", key, "GitReferenceDoesNotExistError", "", <<>>)
          /\ UNCHANGED <<active_refs, asked, refused>>
     ELSE IF ~has_refs[s]
     THEN /\ result' = Res("resolve", s, "", key, "AttributeError", "", <<>>)
          /\ UNCHANGED <<active_refs, asked, refused>>
     ELSE IF DictHas(active_refs[s], k)
     THEN /\ result' = Res("resolve", s, k, key, "", "", <<>>)
          /\ UNCHANGED <<active_refs, asked, refused>>
     ELSE IF load.err # ""
     THEN /\ result' = Res("resolve", s, "", key, load.err, "", show)
          /\ refused' = [refused EXCEPT ![s] = @ \cup {ref}]
          /\ UNCHANGED <<active_refs, asked>>
     ELSE /\ active_refs' = [active_refs EXCEPT ![s] =
                 DictSet(@, k, [ref |-> ref, note_kv |-> load.note_kv])]
          /\ asked' = [asked EXCEPT ![s] = @ \cup {key}]
          /\ result' = Res("resolve", s, k, key, "", "", show)
          /\ UNCHANGED refused
  /\ UNCHANGED <<app, repo_exists, notes, remote_push, has_refs, scope, nmut, nenter>>

\* The RepoRef objects the application holds: those of the sessions' caches.
Handles(s) == {active_refs[s][i][1] : i \in 1..Len(active_refs[s])}

\* RepoRef.note_kv of handle h of session s, and its assignment.
NoteKv(s, h) == DictGet(active_refs[s], h).note_kv
SetNoteKv(s, h, d) ==
  [active_refs EXCEPT ![s] = DictSet(@, h, [DictGet(@, h) EXCEPT !.note_kv = d])]

IsStr(key) == key \in StrKeys
Hashable(key) == key # "[]"

\* RepoRef.__getitem__(key)
GetItem(s, h, key) ==
  /\ Ready
  /\ result' =
       IF ~IsStr(key) THEN Res("getitem", s, h, key, "ValueError", "", <<>>)
       ELSE IF ~DictHas(NoteKv(s, h), key)
       THEN Res("getitem", s, h, key, "KeyError", "", <<>>)
       ELSE Res("getitem", s, h, key, "", DictGet(NoteKv(s, h), key), <<>>)
  /\ UNCHANGED <<app, asked, refused, repo_exists, notes, remote_push, has_refs, active_refs,
                 scope, nmut, nenter>>

\* RepoRef.__setitem__ committing the document to the note at once.
SetItemWriteThrough(s, h, key, value) ==
  LET d == DictSet(NoteKv(s, h), key, value)
      dumped == JsonDumps(d)
  IN
  /\ Ready
  /\ IF ~IsStr(key)
     THEN /\ result' = Res("setitem", s, h, key, "ValueError", "", <<>>)
          /\ UNCHANGED <<active_refs, nmut, notes>>
     ELSE /\ nmut < MaxMut
          /\ nmut' = nmut + 1
          /\ active_refs' = SetNoteKv(s, h, d)
          /\ notes' = IF dumped.err = ""
                      THEN NotesAdd(notes, DictGet(active_refs[s], h).ref, dumped.text)
                      ELSE notes
          /\ result' = Res("setitem", s, h, key, "", value, <<>>)
  /\ UNCHANGED <<app, asked, refused, repo_exists, remote_push, has_refs, scope, nenter>>

\* RepoRef.__setitem__ assigning a new dictionary that holds only the item.
SetItemReplacesDict(s, h, key, value) ==
  /\ Ready
  /\ IF ~IsStr(key)
     THEN /\ result' = Res("setitem", s, h, key, "ValueError", "", <<>>)
          /\ UNCHANGED <<active_refs, nmut>>
     ELSE /\ nmut < MaxMut
          /\ nmut' = nmut + 1
          /\ active_refs' = SetNoteKv(s, h, <<<<key, value>>>>)
          /\ result' = Res("setitem", s, h, key, "", value, <<>>)
  /\ UNCHANGED <<app, asked, refused, repo_exists, notes, remote_push, has_refs, scope, nenter>>

\* RepoRef.__setitem__(key, value)
SetItem(s, h, key, value) ==
  /\ Ready
  /\ IF ~IsStr(key)
     THEN /\ result' = Res("setitem", s, h, key, "ValueError", "", <<>>)
          /\ UNCHANGED <<active_refs, nmut>>
     ELSE /\ nmut < MaxMut
          /\ nmut' = nmut + 1
          /\ active_refs' = SetNoteKv(s, h, DictSet(NoteKv(s, h), key, value))
          /\ result' = Res("setitem", s, h, key, "", value, <<>>)
  /\ UNCHANGED <<app, asked, refused, repo_exists, notes, remote_push, has_refs, scope, nenter>>

\* RepoRef.__contains__(key)
Contains(s, h, key) ==
  /\ Ready
  /\ result' =
       IF ~Hashable(key) THEN Res("contains", s, h, key, "TypeError", "", <<>>)
       ELSE IF DictHas(NoteKv(s, h), key)
       THEN Res("contains", s, h, key, "", "True", <<>>)
       ELSE Res("contains", s, h, key, "", "False", <<>>)
  /\ UNCHANGED <<app, asked, refused, repo_exists, notes, remote_push, has_refs, active_refs,
                 scope, nmut, nenter>>

\* RepoRef.__delitem__(key)
DelItem(s, h, key) ==
  /\ Ready
  /\ IF ~Hashable(key)
     THEN /\ result' = Res("delitem", s, h, key, "TypeError", "", <<>>)
          /\ UNCHANGED <<active_refs, nmut>>
     ELSE IF ~DictHas(NoteKv(s, h), key)
     THEN /\ result' = Res("delitem", s, h, key, "KeyError", "", <<>>)
          /\ UNCHANGED <<active_refs, nmut>>
     ELSE /\ nmut < MaxMut
          /\ nmut' = nmut + 1
          /\ active_refs' = SetNoteKv(s, h, DictDel(NoteKv(s, h), key))
          /\ result' = Res("delitem", s, h, key, "", "", <<>>)
  /\ UNCHANGED <<app, asked, refused, repo_exists, notes, remote_push, has_refs, scope, nenter>>

\* RepoRef.get storing the default under the missing key, as
\* dict.setdefault does.
GetSetsDefault(s, h, key, default) ==
  /\ Ready
  /\ IF ~IsStr(key)
     THEN /\ result' = Res("get", s, h, key, "ValueError", "", <<>>) @@ [default |-> default]
          /\ UNCHANGED active_refs
     ELSE IF ~DictHas(NoteKv(s, h), key)
     THEN /\ result' = Res("get", s, h, key, "", default, <<>>) @@ [default |-> default]
          /\ active_refs' = SetNoteKv(s, h, DictSet(NoteKv(s, h), key, default))
     ELSE /\ result' = Res("get", s, h, key, "", DictGet(NoteKv(s, h), key), <<>>)
                          @@ [default |-> default]
          /\ UNCHANGED active_refs
  /\ UNCHANGED <<app, asked, refused, repo_exists, notes, remote_push, has_refs,
                 scope, nmut, nenter>>

\* RepoRef.get(key, default); the outcome keeps the default passed.
Get(s, h, key, default) ==
  /\ Ready
  /\ result' =
       (IF ~IsStr(key) THEN Res("get", s, h, key, "ValueError", "", <<>>)
        ELSE IF ~DictHas(NoteKv(s, h), key)
        THEN Res("get", s, h, key, "", default, <<>>)
        ELSE Res("get", s, h, key, "", DictGet(NoteKv(s, h), key), <<>>))
       @@ [default |-> default]
  /\ UNCHANGED <<app, asked, refused, repo_exists, notes, remote_push, has_refs, active_refs,
                 scope, nmut, nenter>>

\* RepoRef.clear()
Clear(s, h) ==
  /\ Ready
  /\ nmut < MaxMut
  /\ nmut' = nmut + 1
  /\ active_refs' = SetNoteKv(s, h, <<>>)
  /\ result' = Res("clear", s, h, "", "", "", <<>>)
  /\ UNCHANGED <<app, asked, refused, repo_exists, notes, remote_push, has_refs, scope, nenter>>

\* The application takes the outcome of its call and goes on.
Return ==
  /\ ~Ready
  /\ result' = Idle
  /\ UNCHANGED <<app, asked, refused, repo_exists, notes, remote_push, has_refs, active_refs,
                 scope, nmut, nenter>>

Next ==
  \/ \E s \in app.repos : Enter(s)
  \/ \E s \in app.repos, exc \in ExcTypes : Exit(s, exc)
  \/ \E s \in app.repos, key \in app.names : Resolve(s, key)
  \/ \E s \in app.repos : \E h \in Handles(s), key \in app.keys :
       GetItem(s, h, key)
  \/ \E s \in app.repos : \E h \in Handles(s), key \in app.keys, value \in Values :
       SetItem(s, h, key, value)
  \/ \E s \in app.repos : \E h \in Handles(s), key \in app.keys :
       Contains(s, h, key)
  \/ \E s \in app.repos : \E h \in Handles(s), key \in app.keys :
       DelItem(s, h, key)
  \/ \E s \in app.repos : \E h \in Handles(s), key \in app.keys, default \in Defaults :
       Get(s, h, key, default)
  \/ \E s \in app.repos : \E h \in Handles(s) : Clear(s, h)
  \/ Return

\* One Repo object, entered and left any number of times.
Init == InitWith([repos |-> {"s1"}, names |-> Names, keys |-> Keys], InitNotes)
Spec == Init /\ [][Next]_vars

\* Two Repo objects on the same repository, whose with-blocks may overlap,
\* working on a branch and on another commit with string keys; the notes
\* found are well-formed.
InitTwo ==
  InitWith([repos |-> Sessions, names |-> {"main", "c2"}, keys |-> StrKeys],
           {<<>>, ObjectNote})
SpecTwo == InitTwo /\ [][Next]_vars

(***************************************************************************)
(* Properties.                                                             *)
(***************************************************************************)
\* The RepoRef objects cached by session s, in the order of the cache.
Cached(s) == DictValues(active_refs[s])
CachedSet(s) == {Cached(s)[i] : i \in 1..Len(Cached(s))}

\* Repo.__exit__ of session s has just run its commit loop.
Closed(s) == result.op = "exit" /\ result.s = s /\ has_refs[s]

Serializable(d) == JsonDumps(d).err = ""

\* C1 (round trip).  When a session closes, every cached handle whose
\* document M is JSON-serializable is stored so that a session opened
\* afterwards loads a document with the same keys and values from the
\* reference, the empty document included.
RoundTrip ==
  \A s \in Sessions : Closed(s) =>
    \A r \in CachedSet(s) : Serializable(r.note_kv) =>
      /\ LoadNote(notes[r.ref]).err = ""
      /\ DictItems(LoadNote(notes[r.ref]).note_kv) = DictItems(r.note_kv)

\* The cache holds at most one handle per canonical id, each under its
\* canonical id, and a lookup that succeeds returns the handle cached under
\* the canonical id of the name asked for.
AliasInv ==
  \A s \in Sessions :
    /\ \A i, j \in 1..Len(active_refs[s]) :
         active_refs[s][i][2].ref = active_refs[s][j][2].ref => i = j
    /\ \A i \in 1..Len(active_refs[s]) :
         active_refs[s][i][1] = active_refs[s][i][2].ref
    /\ (result.op = "resolve" /\ result.s = s /\ result.err = "") =>
         /\ result.h = RevParse(result.arg)
         /\ DictHas(active_refs[s], result.h)

\* A lookup neither replaces nor reloads a handle already cached.
LookupKeepsHandles ==
  result'.op = "resolve" =>
    \A s \in Sessions : \A i \in 1..Len(active_refs[s]) :
      /\ Len(active_refs'[s]) >= i
      /\ active_refs'[s][i] = active_refs[s][i]

\* C2 (alias identity).  In every state a session's cache holds at most one
\* handle per canonical id, two lookups of names with the same canonical id
\* return the same handle, and the second lookup does not reload the note, so
\* that a mutation through one name is seen through the other before close.
AliasIdentity == [](AliasInv) /\ [][LookupKeepsHandles]_vars

\* C2 witness: a lookup by a second name of the same commit returned, without
\* reading the note, the handle constructed through the first name, and its
\* document holds a mutation that the repository does not have yet.
AliasWitness ==
  /\ result.op = "resolve" /\ result.err = "" /\ result.calls = <<>>
  /\ result.arg \notin asked[result.s]
  /\ asked[result.s] # {}
  /\ \E n \in asked[result.s] : RevParse(n) = RevParse(result.arg) /\ n # result.arg
  /\ NoteKv(result.s, result.h) # LoadNote(notes[result.h]).note_kv

\* C3 (empty-document deletion).  After close, no cached handle with an empty
\* document has a note left in the repository.
EmptyDocumentDeleted ==
  \A s \in Sessions : Closed(s) =>
    \A r \in CachedSet(s) : r.note_kv = <<>> => notes[r.ref] = <<>>

\* The note of a handle is what close has to make of its document.
Applied(r) ==
  IF r.note_kv = <<>> THEN notes[r.ref] = <<>>
  ELSE notes[r.ref] = JsonDumps(r.note_kv).text

\* C4 (flush on every exit path).  However the with-block is left, with or
\* without an exception, the documents of the cached handles that can be
\* written are in the repository after __exit__.
FlushOnEveryExit ==
  \A s \in Sessions : (Closed(s) /\ result.arg \in ExcTypes) =>
    /\ scope[s] = "out"
    /\ \A r \in CachedSet(s) : Serializable(r.note_kv) => Applied(r)

\* C5 (close processes every handle).  When the commit of one handle fails,
\* close has still run the notes command of every other cached handle, and
\* the failure reaches the caller.
CloseProcessesEveryHandle ==
  \A s \in Sessions : Closed(s) =>
    /\ (\E r \in CachedSet(s) : ~Serializable(r.note_kv)) => result.err # ""
    /\ \A r \in CachedSet(s) : Serializable(r.note_kv) =>
         \E i \in 1..Len(result.calls) :
           /\ result.calls[i].ref = r.ref
           /\ result.calls[i].cmd \in {"notes add", "notes remove"}

\* C6 (push on close).  A close of a session constructed with remote_push
\* ends with a push, after the writes and removals; a session without the
\* flag never pushes.
PushOnClose ==
  \A s \in Sessions : Closed(s) =>
    IF remote_push[s] /\ result.err = ""
    THEN /\ result.calls # <<>>
         /\ result.calls[Len(result.calls)].cmd = "push"
         /\ \A i \in 1..(Len(result.calls) - 1) : result.calls[i].cmd # "push"
    ELSE \A i \in 1..Len(result.calls) : result.calls[i].cmd # "push"

\* The text is no JSON, or JSON that is no object.
NotAnObject(text) ==
  text # <<>> /\ (JsonLoads(text).err # "" \/ JsonLoads(text).type # "dict")

\* C7 (malformed note detection).  In an entered session, a lookup of a
\* reference whose note is no JSON object raises MalformedNoteDataError, and
\* no handle for the reference is cached or returned.
MalformedNoteDetected ==
  (/\ result.op = "resolve"
   /\ has_refs[result.s]
   /\ repo_exists
   /\ RevParse(result.arg) # NoRef
   /\ NotAnObject(notes[RevParse(result.arg)]))
  => /\ result.err = "MalformedNoteDataError"
     /\ result.h = ""
     /\ \A r \in CachedSet(result.s) : r.ref # RevParse(result.arg)

\* C7 witness: lookups have failed on a note that is a JSON array and on a
\* note that is no JSON at all.
MalformedWitness ==
  /\ result.op = "resolve" /\ result.err = "MalformedNoteDataError"
  /\ notes[RevParse(result.arg)] = ArrayNote
  /\ \E c \in Canon : notes[c] = GarbageNote

\* C8 (type guard).  __getitem__, __setitem__ and __delitem__ with a key that
\* is no string all raise ValueError.
TypeGuard ==
  (result.op \in {"getitem", "setitem", "delitem"} /\ ~IsStr(result.arg))
  => result.err = "ValueError"

\* C9 (usable only between open and close).  No lookup made outside the
\* with-block of its session returns a handle.
UsableOnlyInScope ==
  (result.op = "resolve" /\ scope[result.s] # "in") => result.err # ""

\* A step that changes the notes of the repository is a call of __exit__.
OnlyExitWrites == notes' # notes => result'.op = "exit"

\* C10 (deferred commit).  No lookup, __getitem__, get, __setitem__,
\* __contains__, __delitem__ or clear changes the notes of the repository:
\* only __exit__ does.
DeferredCommit == [][OnlyExitWrites]_vars

\* C10 witness: a __setitem__ has changed a document whose note still holds
\* the text loaded before.
DeferredWitness ==
  /\ result.op = "setitem" /\ result.err = ""
  /\ scope[result.s] = "in"
  /\ Serializable(NoteKv(result.s, result.h))
  /\ notes[DictGet(active_refs[result.s], result.h).ref]
       # JsonDumps(NoteKv(result.s, result.h)).text

\* The notes commands that a close has run for the reference of handle r.
FlushesOf(r, calls) ==
  {i \in 1..Len(calls) :
     calls[i].ref = r.ref /\ calls[i].cmd \in {"notes add", "notes remove"}}

\* An __exit__ that ends the with-block runs one notes command for every
\* cached handle; an __exit__ called again after that runs none.
ExactlyOnceStep ==
  \A s \in Sessions :
    (result'.op = "exit" /\ result'.s = s /\ has_refs[s]) =>
      \A r \in CachedSet(s) :
        Cardinality(FlushesOf(r, result'.calls))
          = IF scope[s] = "in" THEN 1 ELSE 0

\* C11 (exactly-once flush).  Every handle held in the cache is flushed
\* exactly once by the close of its with-block: never zero times, and not a
\* second time when __exit__ is called again.
ExactlyOnceFlush == [][ExactlyOnceStep]_vars

\* An __exit__ finds a cached handle with an empty document whose reference
\* has no note: the reference has no note afterwards, and when no cached
\* document is unserializable the __exit__ raises nothing.
RemovalStep ==
  \A s \in Sessions :
    (result'.op = "exit" /\ result'.s = s /\ has_refs[s]) =>
      \A r \in CachedSet(s) : (r.note_kv = <<>> /\ notes[r.ref] = <<>>) =>
        /\ notes'[r.ref] = <<>>
        /\ (\A q \in CachedSet(s) : Serializable(q.note_kv)) => result'.err = ""

\* C12 (idempotent removal).  Closing a session in which a reference without
\* a note was resolved and left without keys raises no error, and the
\* reference still has no note.
IdempotentRemoval == [][RemovalStep]_vars

\* C12 witness: a session that changed no document has closed without error,
\* having run the removal for a reference that has no note.
RemovalWitness ==
  /\ result.op = "exit" /\ result.err = "" /\ nmut = 0
  /\ \E i \in 1..Len(result.calls) :
       /\ result.calls[i].cmd = "notes remove"
       /\ notes[result.calls[i].ref] = <<>>
       /\ \E r \in CachedSet(result.s) :
            r.ref = result.calls[i].ref /\ r.note_kv = <<>>

\* A lookup of a name that git rev-parse does not resolve raises
\* GitReferenceDoesNotExistError and returns no handle; the caches, their
\* handles and documents, the notes and the scopes are as before, and so is
\* what an __exit__ would do with the cached handles.
FailedResolveStep ==
  (result'.op = "resolve" /\ RevParse(result'.arg) = NoRef) =>
    /\ result'.err = "GitReferenceDoesNotExistError"
    /\ result'.h = ""
    /\ active_refs' = active_refs
    /\ notes' = notes
    /\ has_refs' = has_refs /\ scope' = scope
    /\ \A s \in Sessions :
         Flush(DictValues(active_refs'[s]), notes', <<>>) = Flush(Cached(s), notes, <<>>)

\* C13 (failed resolve is local).  A lookup of an unresolvable name fails
\* with GitReferenceDoesNotExistError, adds nothing to the cache and leaves
\* every cached handle and document as it was, usable and committed by the
\* following close as it would have been without the lookup.
FailedResolveLocal == [][FailedResolveStep]_vars

\* C13 witness: inside the with-block a lookup of an unknown name has failed
\* while the cache holds a handle with a change not committed yet.
FailedResolveWitness ==
  /\ result.op = "resolve" /\ result.err = "GitReferenceDoesNotExistError"
  /\ repo_exists /\ RevParse(result.arg) = NoRef
  /\ scope[result.s] = "in"
  /\ \E r \in CachedSet(result.s) :
       r.note_kv # <<>> /\ notes[r.ref] # JsonDumps(r.note_kv).text

\* The items of document d under keys other than k.
Others(d, k) == {p \in DictItems(d) : p[1] # k}

\* The value document d has for key k, as a set: empty when k is absent.
ValuesAt(d, k) == {p[2] : p \in DictItems(d) \ Others(d, k)}

\* Every document has at most one value per key.
DocsAreMaps ==
  \A s \in Sessions : \A r \in CachedSet(s) : \A k \in Keys :
    Cardinality(ValuesAt(r.note_kv, k)) <= 1

\* The calls on a handle with a string key, and clear, do to the document
\* what the same operation does to a map; a new handle starts from the note
\* loaded.
MapStep ==
  \A s \in Sessions : \A h \in Handles(s) :
    (result'.s = s /\ result'.h = h) =>
      LET d == NoteKv(s, h)
          e == DictGet(active_refs'[s], h).note_kv
          k == result'.arg
      IN
      /\ (result'.op = "getitem" /\ IsStr(k)) =>
           /\ e = d
           /\ IF ValuesAt(d, k) = {} THEN result'.err = "KeyError"
              ELSE result'.err = "" /\ ValuesAt(d, k) = {result'.ret}
      /\ (result'.op = "setitem" /\ IsStr(k)) =>
           /\ result'.err = ""
           /\ ValuesAt(e, k) = {result'.ret}
           /\ Others(e, k) = Others(d, k)
      /\ (result'.op = "delitem" /\ IsStr(k)) =>
           IF ValuesAt(d, k) = {} THEN result'.err = "KeyError" /\ e = d
           ELSE /\ result'.err = ""
                /\ ValuesAt(e, k) = {}
                /\ Others(e, k) = Others(d, k)
      /\ result'.op = "clear" => DictItems(e) = {}

\* A lookup that constructs a handle gives it the document of the note.
LoadStep ==
  \A s \in Sessions :
    (result'.op = "resolve" /\ result'.s = s /\ result'.err = ""
       /\ ~DictHas(active_refs[s], result'.h)) =>
      DictGet(active_refs'[s], result'.h).note_kv
        = LoadNote(notes[RevParse(result'.arg)]).note_kv

\* C14 (dictionary refinement).  For string keys a handle behaves as a map
\* initialised from the loaded note: __getitem__ returns the value last set
\* and not deleted or cleared since, __getitem__ and __delitem__ raise
\* KeyError exactly when the key is absent and then change nothing, and
\* __setitem__ and __delitem__ change no other key.
DictionaryRefinement == [](DocsAreMaps) /\ [][MapStep /\ LoadStep]_vars

\* C14 witness: __getitem__ has returned the value set for a key that the
\* loaded note does not have, and the document still has the key and value
\* that were loaded.
DictionaryWitness ==
  /\ result.op = "getitem" /\ result.err = "" /\ result.arg = "b"
  /\ result.ret = "1"
  /\ ValuesAt(NoteKv(result.s, result.h), "a") = {"None"}
  /\ notes[DictGet(active_refs[result.s], result.h).ref] = ObjectNote

\* C15 (no merge across sessions).  When two sessions hold a handle for the
\* same reference and both have closed, the note of the reference is the
\* document of the session that closed last, or absent if that document is
\* empty: what the session that closed first wrote is gone.
LastCloserWins ==
  \A s, t \in Sessions :
    (s # t /\ Closed(s) /\ has_refs[t] /\ scope[t] = "out") =>
      \A r \in CachedSet(s) :
        ((\E q \in CachedSet(t) : q.ref = r.ref) /\ Serializable(r.note_kv))
          => Applied(r)

\* C16 (contains never raises).  __contains__ returns a boolean for a key of
\* any type, False for every key that is no string, hashable or not, and
\* raises nothing.
ContainsNeverRaises ==
  result.op = "contains" =>
    /\ result.err = ""
    /\ result.ret \in {"True", "False"}
    /\ ~IsStr(result.arg) => result.ret = "False"

\* A call of get raises ValueError for a key that is no string, and else
\* returns the value stored under the key or, when there is none, the
\* default passed; the documents are as before.
GetStep ==
  result'.op = "get" =>
    LET d == NoteKv(result'.s, result'.h)
        k == result'.arg
    IN
    /\ active_refs' = active_refs
    /\ IF ~IsStr(k) THEN result'.err = "ValueError"
       ELSE /\ result'.err = ""
            /\ result'.ret = IF ValuesAt(d, k) = {} THEN result'.default
                             ELSE CHOOSE v \in ValuesAt(d, k) : TRUE

\* C17 (get-or-default).  get(key, default) returns the stored value when
\* the string key is present, the default when it is absent, without
\* inserting it into the document, and raises ValueError when the key is no
\* string.
GetOrDefault == [][GetStep]_vars

\* C17 witness: get has returned the default 0 for an absent string key of a
\* document that holds another key, and the document still lacks the key.
GetOrDefaultWitness ==
  /\ result.op = "get" /\ result.err = "" /\ result.ret = "0"
  /\ result.default = "0"
  /\ ~DictHas(NoteKv(result.s, result.h), result.arg)
  /\ NoteKv(result.s, result.h) # <<>>

\* __enter__ on a path without a repository raises RepoDoesNotExistError and
\* the with-block is not entered, so that the with statement calls no
\* __exit__; a successful __enter__ leaves the session with an empty cache.
OpenStep ==
  result'.op = "enter" =>
    LET s == result'.s IN
    IF repo_exists
    THEN /\ result'.err = ""
         /\ has_refs'[s] /\ active_refs'[s] = <<>>
         /\ scope'[s] = "in"
    ELSE /\ result'.err = "RepoDoesNotExistError"
         /\ scope' = scope /\ has_refs' = has_refs
         /\ active_refs' = active_refs /\ notes' = notes

\* Without a repository no session is ever inside its with-block or has a
\* cache, and no call runs a notes command.
NothingWithoutRepo ==
  ~repo_exists =>
    /\ \A s \in Sessions : scope[s] = "out" /\ ~has_refs[s]
    /\ result.calls = <<>>

\* C18 (open).  __enter__ on a path that is no repository raises
\* RepoDoesNotExistError and no commit follows; every successful __enter__
\* starts with an empty cache, also on a Repo object that was entered and
\* left before.
OpenSession == [](NothingWithoutRepo) /\ [][OpenStep]_vars

\* C18 witness: the Repo object has been entered a second time, after
\* documents of handles of its first with-block were changed, and its
\* cache is empty.
OpenWitness ==
  /\ result.op = "enter" /\ result.err = ""
  /\ nenter = 2 /\ nmut > 0
  /\ active_refs[result.s] = <<>>

\* No call changes a note that is no JSON object.
MalformedKeptStep ==
  \A c \in Canon : NotAnObject(notes[c]) => notes'[c] = notes[c]

\* After a lookup has raised MalformedNoteDataError the session has no handle
\* for the reference, whose note is still no JSON object.
RefusedNotCached ==
  \A s \in Sessions : \A c \in refused[s] :
    /\ NotAnObject(notes[c])
    /\ \A r \in CachedSet(s) : r.ref # c

\* C19 (malformed notes are never overwritten).  A lookup that raises
\* MalformedNoteDataError caches no handle for the reference, and neither the
\* following close nor any later call rewrites or removes the malformed note.
MalformedNeverOverwritten == [](RefusedNotCached) /\ [][MalformedKeptStep]_vars

\* C19 witness: after a lookup had raised MalformedNoteDataError the session
\* has closed, running notes commands for its handles, and the malformed
\* note is in the repository.
MalformedKeptWitness ==
  /\ result.op = "exit" /\ result.err = "" /\ result.calls # <<>>
  /\ \E c \in refused[result.s] : notes[c] \in MalformedNotes

\* The note that the commit of handle r alone leaves for its reference.
NoteOf(r, store) ==
  IF r.note_kv = <<>> THEN <<>>
  ELSE IF Serializable(r.note_kv) THEN JsonDumps(r.note_kv).text
  ELSE store[r.ref]

\* An __exit__ leaves for every cached handle the note that its own document
\* makes, and leaves the notes of the references without a handle as they
\* were; a call on one handle leaves the documents of the others as they
\* were.
IsolationStep ==
  \A s \in Sessions :
    /\ (result'.op = "exit" /\ result'.s = s /\ has_refs[s]) =>
         /\ \A r \in CachedSet(s) : notes'[r.ref] = NoteOf(r, notes)
         /\ \A c \in Canon :
              (\A r \in CachedSet(s) : r.ref # c) => notes'[c] = notes[c]
    /\ (result'.op \in {"getitem", "setitem", "contains", "delitem", "get", "clear"}
          /\ result'.s = s) =>
         \A h \in Handles(s) : h # result'.h =>
           /\ DictHas(active_refs'[s], h)
           /\ DictGet(active_refs'[s], h) = DictGet(active_refs[s], h)

\* C20 (namespace isolation at close).  After close the note of a reference
\* depends only on the document of the handle cached under its canonical
\* id, the notes of references never looked up are unchanged, and a change
\* made through one handle changes neither the document nor the resulting
\* note of another.
NamespaceIsolation == [][IsolationStep]_vars
====
